---- MODULE Spec2Model ----
(***************************************************************************)
(* windows_assistant.py: the command dispatcher (execute_command), the     *)
(* browser session handle (BROWSER_SESSION, open_browser, fill_form_field) *)
(* and the main loop (main).  Text is modelled as sequences of one-char    *)
(* strings so that strip, lower, startswith and split act on characters.   *)
(* External capabilities (browser driver, HTTP client, microphone, file    *)
(* system, GUI) are calls whose outcome is chosen nondeterministically:    *)
(* "ok", "exc" (an Exception is raised) or "int" (KeyboardInterrupt is     *)
(* raised inside the blocking call).                                       *)
(***************************************************************************)
EXTENDS Integers, Sequences, FiniteSets, TLC

\* The number of browser sessions webdriver.Chrome() may hand out; once it
\* is reached every further creation raises.
MaxSessions == 3

\* execute_command: the verb prefixes, in the order of the if/elif chain.
P_open_browser == <<"o", "p", "e", "n", " ", "b", "r", "o", "w", "s", "e", "r">>
P_launch_telegram == <<"l", "a", "u", "n", "c", "h", " ", "t", "e", "l", "e", "g", "r", "a", "m">>
P_read_folder == <<"r", "e", "a", "d", " ", "f", "o", "l", "d", "e", "r">>
P_take_screenshot == <<"t", "a", "k", "e", " ", "s", "c", "r", "e", "e", "n", "s", "h", "o", "t">>
P_click_button == <<"c", "l", "i", "c", "k", " ", "b", "u", "t", "t", "o", "n">>
P_fill_form == <<"f", "i", "l", "l", " ", "f", "o", "r", "m">>
\* Variant: the 'open app' test made on the word "open" alone.
P_open_app_Short == <<"o", "p", "e", "n">>
P_open_app == <<"o", "p", "e", "n", " ", "a", "p", "p">>
P_send_http == <<"s", "e", "n", "d", " ", "h", "t", "t", "p">>

\* execute_command: the two words matched exactly.
W_exit == <<"e", "x", "i", "t">>
W_quit == <<"q", "u", "i", "t">>

\* main: the phrase that ends the voice loop.
StopPhrase == <<"s", "t", "o", "p", " ", "l", "i", "s", "t", "e", "n", "i", "n", "g">>

\* execute_command: the URL used when 'open browser' carries no argument.
DefaultUrl == <<"h", "t", "t", "p", "s", ":", "/", "/", "w", "w", "w", ".", "g", "o", "o", "g", "l", "e", ".", "c", "o", "m">>

\* execute_command: str(Path.home()), the folder used when 'read folder' carries none.
HomeDir == <<"~">>

\* execute_command: the field delimiter of the multi-field commands.
Delim == <<":", ":">>

\* The raw lines offered to input() and, as phrases, to recognize_voice().
\* 'open browser'
Raw01 == <<"o", "p", "e", "n", " ", "b", "r", "o", "w", "s", "e", "r">>
\* 'open browser u'
Raw02 == <<"o", "p", "e", "n", " ", "b", "r", "o", "w", "s", "e", "r", " ", "u">>
\* ' Open Browser u '
Raw03 == <<" ", "O", "p", "e", "n", " ", "B", "r", "o", "w", "s", "e", "r", " ", "u", " ">>
\* 'launch telegram'
Raw04 == <<"l", "a", "u", "n", "c", "h", " ", "t", "e", "l", "e", "g", "r", "a", "m">>
\* 'read folder'
Raw05 == <<"r", "e", "a", "d", " ", "f", "o", "l", "d", "e", "r">>
\* 'read folder d'
Raw06 == <<"r", "e", "a", "d", " ", "f", "o", "l", "d", "e", "r", " ", "d">>
\* 'take screenshot'
Raw07 == <<"t", "a", "k", "e", " ", "s", "c", "r", "e", "e", "n", "s", "h", "o", "t">>
\* 'click button i'
Raw08 == <<"c", "l", "i", "c", "k", " ", "b", "u", "t", "t", "o", "n", " ", "i">>
\* 'fill form'
Raw09 == <<"f", "i", "l", "l", " ", "f", "o", "r", "m">>
\* 'fill form::s'
Raw10 == <<"f", "i", "l", "l", " ", "f", "o", "r", "m", ":", ":", "s">>
\* 'fill form::s::v'
Raw11 == <<"f", "i", "l", "l", " ", "f", "o", "r", "m", ":", ":", "s", ":", ":", "v">>
\* 'fill form::s::v::w'
Raw12 == <<"f", "i", "l", "l", " ", "f", "o", "r", "m", ":", ":", "s", ":", ":", "v", ":", ":", "w">>
\* 'open app'
Raw13 == <<"o", "p", "e", "n", " ", "a", "p", "p">>
\* 'open app::x'
Raw14 == <<"o", "p", "e", "n", " ", "a", "p", "p", ":", ":", "x">>
\* 'open app::x::a'
Raw15 == <<"o", "p", "e", "n", " ", "a", "p", "p", ":", ":", "x", ":", ":", "a">>
\* 'open app::x::a::b'
Raw16 == <<"o", "p", "e", "n", " ", "a", "p", "p", ":", ":", "x", ":", ":", "a", ":", ":", "b">>
\* 'send http'
Raw17 == <<"s", "e", "n", "d", " ", "h", "t", "t", "p">>
\* 'send http::u'
Raw18 == <<"s", "e", "n", "d", " ", "h", "t", "t", "p", ":", ":", "u">>
\* 'send http::u::{}'
Raw19 == <<"s", "e", "n", "d", " ", "h", "t", "t", "p", ":", ":", "u", ":", ":", "{", "}">>
\* 'send http::u::{'
Raw20 == <<"s", "e", "n", "d", " ", "h", "t", "t", "p", ":", ":", "u", ":", ":", "{">>
\* 'send http::u::"a::b"'
Raw21 == <<"s", "e", "n", "d", " ", "h", "t", "t", "p", ":", ":", "u", ":", ":", "\"", "a", ":", ":", "b", "\"">>
\* 'send http::u::{}::x'
Raw22 == <<"s", "e", "n", "d", " ", "h", "t", "t", "p", ":", ":", "u", ":", ":", "{", "}", ":", ":", "x">>
\* 'send http::u::NULL'
Raw23 == <<"s", "e", "n", "d", " ", "h", "t", "t", "p", ":", ":", "u", ":", ":", "N", "U", "L", "L">>
\* 'exit'
Raw24 == <<"e", "x", "i", "t">>
\* 'quit'
Raw25 == <<"q", "u", "i", "t">>
\* ' EXIT '
Raw26 == <<" ", "E", "X", "I", "T", " ">>
\* 'exit now'
Raw27 == <<"e", "x", "i", "t", " ", "n", "o", "w">>
\* 'hello'
Raw28 == <<"h", "e", "l", "l", "o">>
\* ''
Raw29 == <<>>
\* 'stop listening'
Raw30 == <<"s", "t", "o", "p", " ", "l", "i", "s", "t", "e", "n", "i", "n", "g">>
\* 'xopen app::x::a'
Raw31 == <<"x", "o", "p", "e", "n", " ", "a", "p", "p", ":", ":", "x", ":", ":", "a">>
\* 'Stop Listening'
Raw32 == <<"S", "t", "o", "p", " ", "L", "i", "s", "t", "e", "n", "i", "n", "g">>
\* ' stop listening'
Raw33 == <<" ", "s", "t", "o", "p", " ", "l", "i", "s", "t", "e", "n", "i", "n", "g">>
\* 'open apple'
Raw34 == <<"o", "p", "e", "n", " ", "a", "p", "p", "l", "e">>

RawLines ==
    {Raw01, Raw02, Raw03, Raw04, Raw05, Raw06, Raw07, Raw08,
     Raw09, Raw10, Raw11, Raw12, Raw13, Raw14, Raw15, Raw16,
     Raw17, Raw18, Raw19, Raw20, Raw21, Raw22, Raw23, Raw24,
     Raw25, Raw26, Raw27, Raw28, Raw29, Raw30, Raw31, Raw32,
     Raw33, Raw34}

(***************************************************************************)
(* Text operations of execute_command                                      *)
(***************************************************************************)

\* str.lower() on one character (the upper-case letters the lines use).
LowerChar(c) ==
    CASE c = "O" -> "o" [] c = "B" -> "b" [] c = "E" -> "e" [] c = "X" -> "x"
      [] c = "I" -> "i" [] c = "T" -> "t" [] c = "N" -> "n" [] c = "U" -> "u"
      [] c = "L" -> "l" [] c = "S" -> "s"
      [] OTHER -> c

\* str.lower()
Lower(s) == [i \in 1..Len(s) |-> LowerChar(s[i])]

IsSpace(c) == c = " "

RECURSIVE LStrip(_)
LStrip(s) == IF s # <<>> /\ IsSpace(Head(s)) THEN LStrip(Tail(s)) ELSE s

RECURSIVE RStrip(_)
RStrip(s) ==
    IF s # <<>> /\ IsSpace(s[Len(s)]) THEN RStrip(SubSeq(s, 1, Len(s) - 1)) ELSE s

\* str.strip()
Strip(s) == RStrip(LStrip(s))

\* command.strip().lower(), the first statement of execute_command
Normalize(raw) == Lower(Strip(raw))

\* str.startswith(p)
StartsWith(s, p) == Len(s) >= Len(p) /\ SubSeq(s, 1, Len(p)) = p

\* command.partition(prefix)[2] for a command that starts with prefix
AfterPrefix(s, p) == SubSeq(s, Len(p) + 1, Len(s))

\* x.strip() or default
OrDefault(s, d) == IF Strip(s) = <<>> THEN d ELSE Strip(s)

\* The first position at or after i where the delimiter starts, 0 if none.
RECURSIVE FindDelim(_, _)
FindDelim(s, i) ==
    IF i + Len(Delim) - 1 > Len(s) THEN 0
    ELSE IF SubSeq(s, i, i + Len(Delim) - 1) = Delim THEN i
    ELSE FindDelim(s, i + 1)

\* str.split("::", n): at most n splits, left to right; n = -1 splits at
\* every delimiter (str.split("::")).
RECURSIVE SplitMax(_, _)
SplitMax(s, n) ==
    LET j == FindDelim(s, 1)
    IN  IF n = 0 \/ j = 0 THEN <<s>>
        ELSE <<SubSeq(s, 1, j - 1)>>
             \o SplitMax(SubSeq(s, j + Len(Delim), Len(s)), n - 1)

Split(s) == SplitMax(s, -1)

\* json.loads(payload) returns (TRUE) or raises ValueError (FALSE), on the
\* fragment of JSON the lines use: the empty object, null, and a string
\* without escapes; white space around the value is allowed.
JsonParses(payload) ==
    LET v == Strip(payload)
    IN  \/ v = <<"{", "}">>
        \/ v = <<"n", "u", "l", "l">>
        \/ /\ Len(v) >= 2
           /\ v[1] = "\"" /\ v[Len(v)] = "\""
           /\ \A i \in 2..(Len(v) - 1) : v[i] \notin {"\"", "\\"}

\* The verb prefixes of execute_command, in the order they are tested.
Prefixes ==
    << P_open_browser, P_launch_telegram, P_read_folder, P_take_screenshot,
       P_click_button, P_fill_form, P_open_app, P_send_http >>

ShapeNames ==
    << "open browser", "launch telegram", "read folder", "take screenshot",
       "click button", "fill form", "open app", "send http" >>

ExitWords == {W_exit, W_quit}

\* Every shape whose own test a normalized command passes, each test taken
\* alone.
Matches(c) ==
    {ShapeNames[i] : i \in {k \in 1..Len(Prefixes) : StartsWith(c, Prefixes[k])}}
    \cup (IF c \in ExitWords THEN {"exit"} ELSE {})

\* The branch the if/elif chain of execute_command takes: the first test
\* that passes, "none" for the final else.
RECURSIVE FirstPrefix(_, _)
FirstPrefix(c, i) ==
    IF i > Len(Prefixes) THEN 0
    ELSE IF StartsWith(c, Prefixes[i]) THEN i
    ELSE FirstPrefix(c, i + 1)

Shape(c) ==
    LET i == FirstPrefix(c, 1)
    IN  IF i # 0 THEN ShapeNames[i]
        ELSE IF c \in ExitWords THEN "exit"
        ELSE "none"

(***************************************************************************)
(* State                                                                   *)
(***************************************************************************)

VARIABLES
    selAvail,    \* selenium was imported (webdriver, ChromeOptions, By are not None)
    srAvail,     \* speech_recognition was imported (sr is not None)
    guiAvail,    \* pyautogui was imported
    pc,          \* where main is
    cmd,         \* the raw text handed to execute_command in this pass
    handle,      \* BROWSER_SESSION: 0 for None, else the session's number
    created,     \* how many sessions webdriver.Chrome() has returned so far
    closeCalls,  \* per session, how many times quit() was called on it
    voice,       \* what recognize_voice did in this pass
    heard,       \* the phrase recognize_voice returned in this pass
    linesRead,   \* lines input() returned in this pass
    dispatches,  \* calls of execute_command made in this pass
    handlers,    \* the handlers execute_command invoked in this pass, in order
    calls,       \* the external calls made in this pass, in order
    logs,        \* the kinds of log line written in this pass
    ev,          \* how the last external call ended: "none", "ok", "exc", "int"
    entryHandle  \* BROWSER_SESSION when this pass began

env == <<selAvail, srAvail, guiAvail>>
session == <<handle, created, closeCalls>>
pass == <<voice, heard, linesRead, dispatches, handlers, calls, logs, ev, entryHandle>>
vars == <<selAvail, srAvail, guiAvail, pc, cmd, handle, created, closeCalls,
          voice, heard, linesRead, dispatches, handlers, calls, logs, ev, entryHandle>>

Sessions == 1..MaxSessions

\* The argument value None.
NoArg == <<"None">>

\* How a blocking external call ends.
Outcomes == {"ok", "exc", "int"}

\* Variant: main breaks out of the loop on any Exception as well.
MainCatch_BreakOnError(o) ==
    CASE o = "int" -> "cleanup"
      [] o = "exc" -> "cleanup"
      [] o = "exit" -> "exited"

\* main, lines 347-351, and what no clause of it catches: KeyboardInterrupt
\* breaks out of the loop, any other Exception is logged and the loop goes
\* on, SystemExit (sys.exit) leaves main at once.
MainCatch(o) ==
    CASE o = "int" -> "cleanup"
      [] o = "exc" -> "await"
      [] o = "exit" -> "exited"

MainLog(o) ==
    CASE o = "int" -> {"interrupted"}
      [] o = "exc" -> {"unexpected"}
      [] OTHER -> {}

\* The try/except Exception around the body of every handler: an Exception
\* is logged and the handler returns to the loop, a KeyboardInterrupt is not
\* caught and reaches main.
HandlerExit(o) == IF o = "int" THEN MainCatch(o) ELSE "await"

HandlerLog(o, failTag) ==
    CASE o = "int" -> MainLog(o)
      [] o = "exc" -> {failTag}
      [] OTHER -> {}

Call(op, s) == [op |-> op, s |-> s]

Invoked(h, a) == [h |-> h, a |-> a]

Init ==
    /\ selAvail \in BOOLEAN
    /\ srAvail \in BOOLEAN
    /\ guiAvail \in BOOLEAN
    /\ pc = "await"
    /\ cmd = <<>>
    /\ handle = 0
    /\ created = 0
    /\ closeCalls = [s \in Sessions |-> 0]
    /\ voice = "unset"
    /\ heard = <<>>
    /\ linesRead = 0
    /\ dispatches = 0
    /\ handlers = <<>>
    /\ calls = <<>>
    /\ logs = {}
    /\ ev = "none"
    /\ entryHandle = 0

(***************************************************************************)
(* main                                                                    *)
(***************************************************************************)

\* The top of the while loop: a new pass starts; `if sr is not None` picks
\* voice capture or the text prompt.
BeginPass ==
    /\ pc = "await"
    /\ pc' = IF srAvail THEN "voice" ELSE "read"
    /\ voice' = IF srAvail THEN "unset" ELSE "unavail"
    /\ cmd' = <<>>
    /\ heard' = <<>>
    /\ linesRead' = 0
    /\ dispatches' = 0
    /\ handlers' = <<>>
    /\ calls' = <<>>
    /\ logs' = {}
    /\ ev' = "none"
    /\ entryHandle' = handle
    /\ UNCHANGED <<env, session>>

\* Variant: the stop phrase compared without lower().
IsStop_CaseSensitive(p) == p = StopPhrase

\* Line 339: the test for the stop phrase.
IsStop(p) == Lower(p) = StopPhrase

\* recognize_voice() and lines 338-343.  The microphone yields a phrase
\* (returned only when it is not empty), nothing, an Exception raised outside
\* the inner try (sr.Microphone()), or the call is interrupted.
Listen ==
    /\ pc = "voice"
    /\ \/ \E p \in RawLines :
            /\ ev' = "ok"
            /\ IF p = <<>>
               THEN /\ voice' = "nothing"
                    /\ pc' = "read"
                    /\ UNCHANGED <<heard, cmd, dispatches, logs>>
               ELSE /\ heard' = p
                    /\ IF IsStop(p)
                       THEN /\ voice' = "stop"
                            /\ logs' = logs \cup {"voice_stop"}
                            /\ pc' = "cleanup"
                            /\ UNCHANGED <<cmd, dispatches>>
                       ELSE /\ voice' = "phrase"
                            /\ cmd' = p
                            /\ dispatches' = dispatches + 1
                            /\ pc' = "dispatch"
                            /\ UNCHANGED logs
       \/ /\ ev' = "ok"
          /\ voice' = "nothing"
          /\ pc' = "read"
          /\ UNCHANGED <<heard, cmd, dispatches, logs>>
       \/ \E o \in {"exc", "int"} :
            /\ ev' = o
            /\ voice' = "raised"
            /\ pc' = MainCatch(o)
            /\ logs' = logs \cup MainLog(o)
            /\ UNCHANGED <<heard, cmd, dispatches>>
    /\ UNCHANGED <<env, session, linesRead, handlers, calls, entryHandle>>

\* input(...) and the call of execute_command, lines 345-346.  input()
\* returns a line, raises EOFError, or is interrupted.
ReadLine ==
    /\ pc = "read"
    /\ \/ \E l \in RawLines :
            /\ ev' = "ok"
            /\ linesRead' = linesRead + 1
            /\ cmd' = l
            /\ dispatches' = dispatches + 1
            /\ pc' = "dispatch"
            /\ UNCHANGED logs
       \/ \E o \in {"exc", "int"} :
            /\ ev' = o
            /\ pc' = MainCatch(o)
            /\ logs' = logs \cup MainLog(o)
            /\ UNCHANGED <<linesRead, cmd, dispatches>>
    /\ UNCHANGED <<env, session, voice, heard, handlers, calls, entryHandle>>

\* Lines 353-357: after the loop, quit() on the session the handle holds; an
\* Exception it raises is passed over.
\* Interruptions are taken while the loop runs; none is taken here.
Cleanup ==
    /\ pc = "cleanup"
    /\ IF handle # 0
       THEN /\ \E o \in {"ok", "exc"} : ev' = o
            /\ calls' = Append(calls, Call("quit", handle))
            /\ closeCalls' = [closeCalls EXCEPT ![handle] = @ + 1]
       ELSE UNCHANGED <<ev, calls, closeCalls>>
    /\ pc' = "final"
    /\ UNCHANGED <<env, cmd, handle, created, voice, heard, linesRead,
                   dispatches, handlers, logs, entryHandle>>

\* Line 359: log("Assistant stopped.")
FinalLog ==
    /\ pc = "final"
    /\ logs' = logs \cup {"stopped"}
    /\ pc' = "stopped"
    /\ UNCHANGED <<env, cmd, session, voice, heard, linesRead, dispatches,
                   handlers, calls, ev, entryHandle>>

(***************************************************************************)
(* execute_command and the handlers                                        *)
(***************************************************************************)

\* The normalized command execute_command works on.
Command == Normalize(cmd)

\* execute_command is running and its if/elif chain takes branch b.
AtBranch(b) == pc = "dispatch" /\ Shape(Command) = b

\* A handler that makes no use of the browser session leaves it alone.
NoSessionUse == UNCHANGED <<env, cmd, session, voice, heard, linesRead, dispatches, entryHandle>>

\* Lines 281-283 and open_browser up to line 78: without selenium the handler
\* logs and returns; with a session in the handle it goes on to reuse it,
\* otherwise to create one.
DoOpenBrowser ==
    /\ AtBranch("open browser")
    /\ LET url == OrDefault(AfterPrefix(Command, P_open_browser), DefaultUrl)
       IN  handlers' = Append(handlers, Invoked("open_browser", <<url>>))
    /\ IF ~selAvail
       THEN /\ logs' = logs \cup {"processing", "ob_attempt", "no_selenium"}
            /\ pc' = "await"
       ELSE /\ logs' = logs \cup {"processing", "ob_attempt"}
            /\ pc' = IF handle # 0 THEN "ob_reuse" ELSE "ob_create"
    /\ UNCHANGED <<env, cmd, session, voice, heard, linesRead, dispatches, calls, ev, entryHandle>>

\* Lines 79-84: BROWSER_SESSION.get(url) on the session already held.
ObReuse ==
    /\ pc = "ob_reuse"
    /\ calls' = Append(calls, Call("get", handle))
    /\ \E o \in Outcomes :
         /\ ev' = o
         /\ CASE o = "ok" -> /\ logs' = logs \cup {"reused"}
                             /\ pc' = "await"
              [] o = "exc" -> /\ logs' = logs \cup {"session_failed"}
                              /\ pc' = "ob_quit"
              [] o = "int" -> /\ logs' = logs \cup MainLog(o)
                              /\ pc' = MainCatch(o)
    /\ UNCHANGED <<env, cmd, session, voice, heard, linesRead, dispatches, handlers, entryHandle>>

\* Variant: an Exception raised by quit() is not passed over; it reaches the
\* except clause of line 96 and the handle keeps the session.
ObDiscard_NoSwallow ==
    /\ pc = "ob_quit"
    /\ calls' = Append(calls, Call("quit", handle))
    /\ closeCalls' = [closeCalls EXCEPT ![handle] = @ + 1]
    /\ \E o \in Outcomes :
         /\ ev' = o
         /\ CASE o = "int" -> /\ handle' = handle
                              /\ logs' = logs \cup MainLog(o)
                              /\ pc' = MainCatch(o)
              [] o = "exc" -> /\ handle' = handle
                              /\ logs' = logs \cup {"open_failed"}
                              /\ pc' = "await"
              [] o = "ok" -> /\ handle' = 0
                             /\ logs' = logs
                             /\ pc' = "ob_create"
    /\ UNCHANGED <<env, cmd, created, voice, heard, linesRead, dispatches, handlers, entryHandle>>

\* Variant: the failed session is dropped without quit() being called on it.
ObDiscard_NoQuit ==
    /\ pc = "ob_quit"
    /\ handle' = 0
    /\ ev' = "none"
    /\ pc' = "ob_create"
    /\ UNCHANGED <<env, cmd, created, closeCalls, voice, heard, linesRead, dispatches,
                   handlers, calls, logs, entryHandle>>

\* Lines 85-89: quit() on the failed session, an Exception from it passed
\* over, then the handle is set to None.  A KeyboardInterrupt raised inside
\* quit() is caught neither at line 87 nor at line 96: line 89 does not run.
ObDiscard ==
    /\ pc = "ob_quit"
    /\ calls' = Append(calls, Call("quit", handle))
    /\ closeCalls' = [closeCalls EXCEPT ![handle] = @ + 1]
    /\ \E o \in Outcomes :
         /\ ev' = o
         /\ IF o = "int"
            THEN /\ handle' = handle
                 /\ logs' = logs \cup MainLog(o)
                 /\ pc' = MainCatch(o)
            ELSE /\ handle' = 0
                 /\ logs' = logs
                 /\ pc' = "ob_create"
    /\ UNCHANGED <<env, cmd, created, voice, heard, linesRead, dispatches, handlers, entryHandle>>

\* Lines 91-93: ChromeOptions() and webdriver.Chrome(options=options); the
\* handle is assigned only when the constructor returns a session.
ObCreate ==
    /\ pc = "ob_create"
    /\ \/ /\ created < MaxSessions
          /\ ev' = "ok"
          /\ created' = created + 1
          /\ handle' = created + 1
          /\ calls' = Append(calls, Call("create", created + 1))
          /\ logs' = logs
          /\ pc' = "ob_nav"
       \/ \E o \in {"exc", "int"} :
            /\ ev' = o
            /\ calls' = Append(calls, Call("create", 0))
            /\ logs' = logs \cup HandlerLog(o, "open_failed")
            /\ pc' = HandlerExit(o)
            /\ UNCHANGED <<handle, created>>
    /\ UNCHANGED <<env, cmd, closeCalls, voice, heard, linesRead, dispatches, handlers, entryHandle>>

\* Lines 94-97: get(url) on the new session; an Exception is logged and the
\* new session stays in the handle.
ObNavigate ==
    /\ pc = "ob_nav"
    /\ calls' = Append(calls, Call("get", handle))
    /\ \E o \in Outcomes :
         /\ ev' = o
         /\ logs' = logs \cup (IF o = "ok" THEN {"opened"} ELSE HandlerLog(o, "open_failed"))
         /\ pc' = HandlerExit(o)
    /\ UNCHANGED <<env, cmd, session, voice, heard, linesRead, dispatches, handlers, entryHandle>>

\* Lines 284-285 and launch_telegram: start the executable when it exists.
DoLaunchTelegram ==
    /\ AtBranch("launch telegram")
    /\ handlers' = Append(handlers, Invoked("launch_telegram", <<>>))
    /\ \/ /\ ev' = "none"
          /\ calls' = calls
          /\ logs' = logs \cup {"processing", "telegram_missing"}
          /\ pc' = "await"
       \/ \E o \in Outcomes :
            /\ ev' = o
            /\ calls' = Append(calls, Call("startfile", 0))
            /\ logs' = logs \cup {"processing"} \cup HandlerLog(o, "telegram_failed")
            /\ pc' = HandlerExit(o)
    /\ NoSessionUse

\* Lines 286-288 and read_folder.  With no folder given, Path.home() is
\* evaluated in execute_command, outside any handler's try: an error it
\* raises reaches main.
DoReadFolder ==
    /\ AtBranch("read folder")
    /\ LET given == Strip(AfterPrefix(Command, P_read_folder))
           folder == OrDefault(given, HomeDir)
       IN  \/ /\ given = <<>>
              /\ ev' = "exc"
              /\ UNCHANGED <<handlers, calls>>
              /\ logs' = logs \cup {"processing"} \cup MainLog("exc")
              /\ pc' = MainCatch("exc")
           \/ /\ handlers' = Append(handlers, Invoked("read_folder", <<folder>>))
              /\ \/ /\ ev' = "none"
                    /\ calls' = calls
                    /\ logs' = logs \cup {"processing", "folder_missing"}
                    /\ pc' = "await"
                 \/ \E o \in Outcomes :
                      /\ ev' = o
                      /\ calls' = Append(calls, Call("iterdir", 0))
                      /\ logs' = logs \cup {"processing"} \cup HandlerLog(o, "folder_failed")
                      /\ pc' = HandlerExit(o)
    /\ NoSessionUse

\* Lines 289-290 and take_screenshot.
DoTakeScreenshot ==
    /\ AtBranch("take screenshot")
    /\ handlers' = Append(handlers, Invoked("take_screenshot", <<>>))
    /\ IF ~guiAvail
       THEN /\ ev' = "none"
            /\ calls' = calls
            /\ logs' = logs \cup {"processing", "no_pyautogui"}
            /\ pc' = "await"
       ELSE \E o \in Outcomes :
            /\ ev' = o
            /\ calls' = Append(calls, Call("screenshot", 0))
            /\ logs' = logs \cup {"processing"} \cup HandlerLog(o, "screenshot_failed")
            /\ pc' = HandlerExit(o)
    /\ NoSessionUse

\* Lines 291-293 and click_button: locate the image, click when found.
DoClickButton ==
    /\ AtBranch("click button")
    /\ LET image == Strip(AfterPrefix(Command, P_click_button))
       IN  handlers' = Append(handlers, Invoked("click_button", <<image>>))
    /\ IF ~guiAvail
       THEN /\ ev' = "none"
            /\ calls' = calls
            /\ logs' = logs \cup {"processing", "no_pyautogui"}
            /\ pc' = "await"
       ELSE \/ /\ ev' = "ok"
               /\ calls' = Append(calls, Call("locate", 0))
               /\ logs' = logs \cup {"processing", "image_not_found"}
               /\ pc' = "await"
            \/ /\ ev' = "ok"
               /\ calls' = calls \o <<Call("locate", 0), Call("click", 0)>>
               /\ logs' = logs \cup {"processing", "clicked"}
               /\ pc' = "await"
            \/ \E o \in {"exc", "int"} :
                 /\ ev' = o
                 /\ calls' = Append(calls, Call("locate", 0))
                 /\ logs' = logs \cup {"processing"} \cup HandlerLog(o, "click_failed")
                 /\ pc' = HandlerExit(o)
    /\ NoSessionUse

\* Variant: any field count from 3 up is accepted.
FormFieldsOk_AtLeast(parts) == Len(parts) >= 3

\* Line 296: the field count 'fill form' accepts.
FormFieldsOk(parts) == Len(parts) = 3

\* Lines 294-300 and fill_form_field: find the element in the session the
\* handle holds, clear it and send the keys.
DoFillForm ==
    /\ AtBranch("fill form")
    /\ LET parts == Split(Command)
       IN  IF FormFieldsOk(parts)
           THEN /\ handlers' = Append(handlers,
                        Invoked("fill_form_field", <<Strip(parts[2]), Strip(parts[3])>>))
                /\ IF ~selAvail
                   THEN /\ ev' = "none"
                        /\ calls' = calls
                        /\ logs' = logs \cup {"processing", "no_selenium"}
                        /\ pc' = "await"
                   ELSE IF handle = 0
                   THEN /\ ev' = "none"
                        /\ calls' = calls
                        /\ logs' = logs \cup {"processing", "no_session"}
                        /\ pc' = "await"
                   ELSE \E o \in Outcomes :
                        /\ ev' = o
                        /\ calls' = Append(calls, Call("find_element", handle))
                        /\ logs' = logs \cup {"processing"}
                                   \cup (IF o = "ok" THEN {"filled"} ELSE HandlerLog(o, "fill_failed"))
                        /\ pc' = HandlerExit(o)
           ELSE /\ ev' = "none"
                /\ UNCHANGED <<handlers, calls>>
                /\ logs' = logs \cup {"processing", "fmt_form"}
                /\ pc' = "await"
    /\ NoSessionUse

\* Line 303: the field count 'open app' accepts.
AppFieldsOk(parts) == Len(parts) >= 2

\* Lines 301-308 and open_application: spawn the executable when its path
\* exists.
DoOpenApp ==
    /\ AtBranch("open app")
    /\ LET parts == Split(Command)
       IN  IF AppFieldsOk(parts)
           THEN /\ handlers' = Append(handlers,
                        Invoked("open_application",
                                <<Strip(parts[2]),
                                  IF Len(parts) = 3 THEN Strip(parts[3]) ELSE NoArg>>))
                /\ \/ /\ ev' = "none"
                      /\ calls' = calls
                      /\ logs' = logs \cup {"processing", "exe_missing"}
                      /\ pc' = "await"
                   \/ \E o \in Outcomes :
                        /\ ev' = o
                        /\ calls' = Append(calls, Call("popen", 0))
                        /\ logs' = logs \cup {"processing"}
                                   \cup (IF o = "ok" THEN {"launched"} ELSE HandlerLog(o, "launch_failed"))
                        /\ pc' = HandlerExit(o)
           ELSE /\ ev' = "none"
                /\ UNCHANGED <<handlers, calls>>
                /\ logs' = logs \cup {"processing", "fmt_app"}
                /\ pc' = "await"
    /\ NoSessionUse

\* Variant: the third field is not parsed before the request is sent.
HttpAccepts_NoParse(c) == Len(SplitMax(c, 2)) = 3

\* Lines 311-312: the command unpacks into three fields and the third one
\* parses; otherwise a ValueError is raised before send_http_message is
\* called.
HttpAccepts(c) ==
    LET parts == SplitMax(c, 2)
    IN  Len(parts) = 3 /\ JsonParses(parts[3])

\* Lines 309-317 and send_http_message.
DoSendHttp ==
    /\ AtBranch("send http")
    /\ IF HttpAccepts(Command)
       THEN LET parts == SplitMax(Command, 2)
            IN  /\ handlers' = Append(handlers,
                        Invoked("send_http_message", <<Strip(parts[2]), parts[3]>>))
                /\ calls' = Append(calls, Call("post", 0))
                /\ \E o \in Outcomes :
                     /\ ev' = o
                     /\ logs' = logs \cup {"processing"}
                                \cup (IF o = "ok" THEN {"response"} ELSE HandlerLog(o, "http_failed"))
                     /\ pc' = HandlerExit(o)
       ELSE /\ ev' = "none"
            /\ UNCHANGED <<handlers, calls>>
            /\ logs' = logs \cup {"processing", "fmt_http"}
            /\ pc' = "await"
    /\ NoSessionUse

\* Lines 318-320: sys.exit(0) raises SystemExit, which no except clause of
\* main catches; the lines after the loop do not run.
DoExit ==
    /\ AtBranch("exit")
    /\ ev' = "none"
    /\ logs' = logs \cup {"processing", "exiting"}
    /\ pc' = MainCatch("exit")
    /\ UNCHANGED <<handlers, calls>>
    /\ NoSessionUse

\* Lines 321-322: the final else.
DoUnrecognized ==
    /\ AtBranch("none")
    /\ ev' = "none"
    /\ logs' = logs \cup {"processing", "not_recognized"}
    /\ pc' = "await"
    /\ UNCHANGED <<handlers, calls>>
    /\ NoSessionUse

Next ==
    \/ BeginPass
    \/ Listen
    \/ ReadLine
    \/ DoOpenBrowser
    \/ ObReuse
    \/ ObDiscard
    \/ ObCreate
    \/ ObNavigate
    \/ DoLaunchTelegram
    \/ DoReadFolder
    \/ DoTakeScreenshot
    \/ DoClickButton
    \/ DoFillForm
    \/ DoOpenApp
    \/ DoSendHttp
    \/ DoExit
    \/ DoUnrecognized
    \/ Cleanup
    \/ FinalLog

Spec == Init /\ [][Next]_vars

(***************************************************************************)
(* Properties                                                              *)
(***************************************************************************)

\* The positions of main inside the while loop.
LoopPcs == {"await", "voice", "read", "dispatch", "ob_reuse", "ob_quit", "ob_create", "ob_nav"}

\* execute_command was called in this pass and is no longer at its branch
\* test: the dispatch has acted.
Dispatched == dispatches = 1 /\ pc # "dispatch"

CallsOf(op) == {i \in 1..Len(calls) : calls[i].op = op}

HandlerNames == {handlers[i].h : i \in 1..Len(handlers)}

\* The text after the second delimiter of c, <<"none">> when c has fewer
\* than two delimiters.
BodyOf(c) ==
    LET d1 == FindDelim(c, 1)
        d2 == IF d1 = 0 THEN 0 ELSE FindDelim(c, d1 + 2)
    IN  IF d2 = 0 THEN <<"none">> ELSE SubSeq(c, d2 + 2, Len(c))

\* C1: when exit or quit is dispatched while a browser session is live, the
\* process ends with that session closed and the final 'Assistant stopped.'
\* line logged, and no further command is processed.
C1_ExitClosesSession ==
    (pc \in {"stopped", "exited"} /\ Command \in ExitWords /\ Dispatched /\ handle # 0)
        => /\ closeCalls[handle] >= 1
           /\ "stopped" \in logs
           /\ handlers = <<>>

\* C2: open_browser called with a live session tries get() on it first; when
\* that succeeds no session is created; when it raises, quit() is called on
\* the old session and the handle is None before a session is created; on
\* return the handle is None or holds a session quit() was never called on.
C2_ReuseThenDiscardThenCreate ==
    /\ (entryHandle # 0 /\ "open_browser" \in HandlerNames /\ calls # <<>>)
          => calls[1] = Call("get", entryHandle)
    /\ "reused" \in logs
          => /\ calls = <<Call("get", entryHandle)>>
             /\ handle = entryHandle
             /\ entryHandle # 0
    /\ pc = "ob_create"
          => /\ handle = 0
             /\ entryHandle # 0
                   => /\ calls = <<Call("get", entryHandle), Call("quit", entryHandle)>>
                      /\ closeCalls[entryHandle] = 1
    /\ (pc = "await" /\ "open_browser" \in HandlerNames)
          => (handle = 0 \/ closeCalls[handle] = 0)

\* A live session failed on reuse, was quit and replaced by a new one.
C2_Witness ==
    /\ pc = "await"
    /\ "session_failed" \in logs
    /\ entryHandle # 0
    /\ handle \notin {0, entryHandle}
    /\ closeCalls[entryHandle] = 1
    /\ closeCalls[handle] = 0

\* C3: in every state at most one created session has not had quit() called
\* on it, and every created session other than the one in the handle has.
C3_AtMostOneOpenSession ==
    /\ Cardinality({s \in 1..created : closeCalls[s] = 0}) <= 1
    /\ \A s \in 1..created : s # handle => closeCalls[s] >= 1
    /\ handle \in 0..created

\* Two sessions were released and a third is held open.
C3_Witness ==
    /\ created >= 3
    /\ handle = created
    /\ closeCalls[handle] = 0

\* C4: the launch handler is invoked for an 'open app' command only when the
\* command has exactly 2 or exactly 3 '::'-separated fields; for any other
\* count a format error is logged and the handler is not invoked.
C4_AppFieldCount ==
    (Dispatched /\ StartsWith(Command, P_open_app))
        => IF Len(Split(Command)) \in {2, 3}
           THEN "open_application" \in HandlerNames /\ "fmt_app" \notin logs
           ELSE handlers = <<>> /\ "fmt_app" \in logs

\* C5: a 'send http' command issues a POST iff it has a second delimiter and
\* the text after it parses as JSON; then exactly one POST is issued, also
\* when the transport fails; otherwise a format error is logged and none is.
C5_PostIffWellFormed ==
    /\ (Dispatched /\ StartsWith(Command, P_send_http))
          => IF BodyOf(Command) # <<"none">> /\ JsonParses(BodyOf(Command))
             THEN Cardinality(CallsOf("post")) = 1 /\ "fmt_http" \notin logs
             ELSE CallsOf("post") = {} /\ "fmt_http" \in logs
    /\ Cardinality(CallsOf("post")) <= 1
    /\ CallsOf("post") # {} => StartsWith(Command, P_send_http)

\* The one POST failed in transport and the loop went on.
C5_Witness ==
    /\ pc = "await"
    /\ "http_failed" \in logs
    /\ Cardinality(CallsOf("post")) = 1

\* C6: a 'fill form' command touches the page only when it has exactly 3
\* fields and the handle holds a session; with another field count a format
\* error is logged and the page is not touched; with no session it is not
\* touched; the handle is left as it was.
C6_FillFormGuarded ==
    /\ (Dispatched /\ StartsWith(Command, P_fill_form))
          => /\ CallsOf("find_element") # {}
                   => Len(Split(Command)) = 3 /\ handle # 0
             /\ Len(Split(Command)) # 3
                   => /\ "fmt_form" \in logs
                      /\ CallsOf("find_element") = {}
                      /\ handlers = <<>>
             /\ entryHandle = 0 => CallsOf("find_element") = {}
             /\ handle = entryHandle
    /\ \A i \in CallsOf("find_element") : calls[i].s = entryHandle /\ entryHandle # 0

\* A field of the page of the live session was filled.
C6_Witness ==
    /\ pc = "await"
    /\ "filled" \in logs
    /\ CallsOf("find_element") # {}
    /\ handle = entryHandle

\* The log lines that report a failure of one command.
FailureLogs ==
    {"open_failed", "session_failed", "telegram_missing", "telegram_failed",
     "folder_missing", "folder_failed", "screenshot_failed", "click_failed",
     "fill_failed", "exe_missing", "launch_failed", "http_failed",
     "fmt_form", "fmt_app", "fmt_http", "not_recognized", "unexpected"}

NoRepeatedCall(cs) == \A i, j \in 1..Len(cs) : cs[i] = cs[j] => i = j

\* C7: a failure inside a handler neither ends the loop nor is retried: the
\* step that fails stays in the loop, and the loop is left only by an exit or
\* quit command, by the voice stop phrase, or by an interruption.
C7_FailuresStayInLoop ==
    [][ /\ (pc \in LoopPcs /\ pc' \notin LoopPcs)
              => \/ pc = "dispatch" /\ Command \in ExitWords /\ pc' = "exited"
                 \/ pc = "voice" /\ Lower(heard') = StopPhrase /\ pc' = "cleanup"
                 \/ ev' = "int" /\ pc' = "cleanup"
        /\ (pc \in LoopPcs /\ (ev' = "exc" \/ (logs' \ logs) \cap FailureLogs # {}))
              => pc' \in LoopPcs
        /\ (pc \in LoopPcs /\ (logs' \ logs) \cap (FailureLogs \ {"session_failed"}) # {})
              => pc' = "await"
        /\ pc' \in LoopPcs => NoRepeatedCall(calls')
      ]_vars

\* A command failed in its handler and the loop waits for the next one.
C7_Witness ==
    /\ pc = "await"
    /\ ev = "exc"
    /\ logs \cap FailureLogs # {}
    /\ calls # <<>>

\* C8: when the loop ends by the stop phrase or by an interruption, quit()
\* has been called exactly once on the session the handle holds and the final
\* line is logged; with no session no quit() is made by the shutdown.
C8_ShutdownClosesOnce ==
    (pc = "stopped" /\ (voice = "stop" \/ "interrupted" \in logs))
        => /\ "stopped" \in logs
           /\ handle # 0 => closeCalls[handle] = 1
           /\ handle = 0 => (calls = <<>> \/ calls[Len(calls)].op # "quit")

\* C9: a command that starts with no listed prefix and is not exactly exit
\* or quit invokes no handler, makes no external call, leaves the handle as it
\* was, keeps the loop running and logs 'not recognized'; no command passes
\* the test of two shapes, and at most one handler is invoked per dispatch.
C9_UnrecognizedIsNoOp ==
    /\ (Dispatched /\ Command \notin ExitWords
           /\ \A i \in 1..Len(Prefixes) : ~StartsWith(Command, Prefixes[i]))
          => /\ handlers = <<>>
             /\ calls = <<>>
             /\ handle = entryHandle
             /\ pc = "await"
             /\ "not_recognized" \in logs
    /\ "not_recognized" \in logs => handlers = <<>>
    /\ Cardinality(Matches(Command)) <= 1
    /\ Len(handlers) <= 1

\* An unrecognized command was dispatched while a session was live.
C9_Witness ==
    /\ pc = "await"
    /\ Dispatched
    /\ "not_recognized" \in logs
    /\ handle # 0

\* C10: per pass execute_command is called at most once; a non-empty voice
\* phrase other than the stop phrase is dispatched without a text line being
\* read; when voice capture yields nothing or is unavailable one line is read
\* and dispatched; the stop phrase is never dispatched.
C10_OneDispatchPerPass ==
    /\ dispatches <= 1 /\ linesRead <= 1
    /\ voice = "phrase"
          => /\ heard # <<>> /\ Lower(heard) # StopPhrase
             /\ dispatches = 1 /\ linesRead = 0 /\ cmd = heard
    /\ voice = "stop"
          => Lower(heard) = StopPhrase /\ dispatches = 0 /\ linesRead = 0 /\ pc \notin LoopPcs
    /\ (voice \in {"nothing", "unavail"} /\ pc # "read")
          => \/ linesRead = 1 /\ dispatches = 1
             \/ linesRead = 0 /\ dispatches = 0 /\ logs \cap {"unexpected", "interrupted"} # {}
    /\ linesRead = 1 => voice \in {"nothing", "unavail"}
    /\ voice = "raised" => dispatches = 0 /\ linesRead = 0
    /\ (voice = "unavail") => ~srAvail
    /\ (srAvail /\ pc # "await") => voice # "unavail"

\* Voice capture was available and yielded nothing; the line read instead
\* was dispatched.
C10_Witness ==
    /\ srAvail
    /\ voice = "nothing"
    /\ linesRead = 1
    /\ dispatches = 1
    /\ pc = "await"
====
